---------------------------- MODULE Spec2Model ----------------------------
(***************************************************************************)
(* Model of the village debt manager (src/app.py): a Streamlit front end   *)
(* over two Google Sheets worksheets, "customers" and "pay".               *)
(*                                                                         *)
(* Text cells.  A worksheet holds text.  A date cell is modelled as the    *)
(* pair (fmt, day): the calendar day `day` written in the textual format   *)
(* `fmt` ("ymd" = YYYY-MM-DD, "dmy" = DD/MM/YYYY, "bad" = text no parser   *)
(* accepts, the empty cell included).  An amount cell is the pair          *)
(* (fmt, num): "plain" = digits with an optional decimal point, "comma" =  *)
(* digits with thousands separators.  Names are strings; "Bob " is "Bob"   *)
(* followed by a blank.  Money is integer baht; per-period targets and     *)
(* sums are kept in hundredths of a baht so that 25% is exact.             *)
(***************************************************************************)
EXTENDS Integers, Sequences, FiniteSets, TLC

VARIABLES
    customers,          \* worksheet "customers": header row followed by data rows
    pay,                \* worksheet "pay": header row followed by data rows
    cache,              \* st.cache_data entry of load_data()
    selected_debtor,    \* st.session_state.selected_debtor
    show_edit_form,     \* st.session_state.show_edit_form
    edit_payment_data,  \* st.session_state.edit_payment_data
    last_op,            \* the handler that ran last and how it ended
    faults,             \* remote calls that have raised so far
    calc_args,          \* arguments of calculate_yearly_summary (and "now")
    calc_ret,           \* what calculate_yearly_summary returned
    calc_prev,          \* arguments and return value of the run before the last
    wpc,                \* per session: position inside write_df_to_sheet
    wdata,              \* per session: data_to_upload of its write_df_to_sheet
    finished,           \* sessions in the order their save finished
    history_row         \* the history loop's last iteration: row, index found, button

vars == <<customers, pay, cache, selected_debtor, show_edit_form,
          edit_payment_data, last_op, faults, calc_args, calc_ret, calc_prev,
          wpc, wdata, finished, history_row>>

----------------------------------------------------------------------------
(* Bounds of the model *)

MaxRows == 2
MaxDebtors == 2
MaxPayments == 2
MaxFaults == 1

----------------------------------------------------------------------------
(* Calendar: datetime.date as a day number (proleptic Gregorian) *)

date(y, m, d) ==
    LET yy  == IF m <= 2 THEN y - 1 ELSE y
        era == yy \div 400
        yoe == yy % 400
        mp  == (m + 9) % 12
        doy == (153 * mp + 2) \div 5 + d - 1
        doe == yoe * 365 + yoe \div 4 - yoe \div 100 + doy
    IN  era * 146097 + doe - 719468

\* max(a, b)
no_floor(a, b) == b

Max(a, b) == IF a >= b THEN a ELSE b

\* Python round(): round half to even, on the non-negative rational n / d
round(n, d) ==
    LET q == n \div d
        r == n % d
    IN  IF 2 * r < d THEN q
        ELSE IF 2 * r > d THEN q + 1
        ELSE IF q % 2 = 0 THEN q ELSE q + 1

----------------------------------------------------------------------------
(* get_debt_periods / calculate_yearly_summary *)

contract_start_year == 2025

get_debt_periods ==
    [i \in 1..4 |-> [start |-> date(contract_start_year + i - 1, 4, 5),
                     end   |-> date(contract_start_year + i, 3, 5)]]

\* pd.to_numeric(total_loan, errors='coerce'), NaN replaced by 0.
\* A raw loan is [num |-> is it numeric, v |-> its value].
coerce_loan(total_loan) == IF total_loan.num THEN total_loan.v ELSE 0

\* yearly_target = total_loan * 0.25, in hundredths of a baht
yearly_target_trunc(loan) == ((loan * 25) \div 100) * 100

yearly_target_of(loan) == loan * 25

\* the boolean mask of one period over payments_df
in_period_exclusive(p, debtor_name, period) ==
    /\ p.payer = debtor_name
    /\ p.date_dt > period.start
    /\ p.date_dt < period.end

in_period_any_payer(p, debtor_name, period) ==
    /\ p.date_dt >= period.start
    /\ p.date_dt <= period.end

in_period(p, debtor_name, period) ==
    /\ p.payer = debtor_name
    /\ p.date_dt >= period.start
    /\ p.date_dt <= period.end

RECURSIVE paid_in_period(_, _, _)
\* payments_df.loc[mask, amount].sum(), in hundredths of a baht
paid_in_period(payments_df, debtor_name, period) ==
    IF payments_df = <<>> THEN 0
    ELSE (IF in_period(Head(payments_df), debtor_name, period)
            THEN Head(payments_df).amount * 100 ELSE 0)
         + paid_in_period(Tail(payments_df), debtor_name, period)

\* is the fine of a period assessed at current_date
fine_due_inclusive(current_date, fine_deadline) == current_date >= fine_deadline

fine_due(current_date, fine_deadline) == current_date > fine_deadline

\* one iteration of the loop over the periods
period_record(debtor_name, target, payments_df, current_date, period) ==
    LET paid      == paid_in_period(payments_df, debtor_name, period)
        shortfall == Max(0, target - paid)
        due       == fine_due(current_date, period.end)
        fine      == IF due /\ shortfall > 0
                        THEN round(shortfall * 15, 10000) ELSE 0
    IN  [target    |-> target,
         paid      |-> paid,
         shortfall |-> shortfall,
         fine      |-> fine,
         status    |-> IF due THEN (IF shortfall > 0 THEN "fine" ELSE "fully paid")
                              ELSE "not yet due"]

\* the running totals over the periods
SumFirst(s, f) == IF s = <<>> THEN 0 ELSE Head(s)[f]

RECURSIVE SumField(_, _)
SumField(s, f) == IF s = <<>> THEN 0 ELSE Head(s)[f] + SumField(Tail(s), f)

\* current_date = datetime.now().date(), read inside the function; the model
\* carries the clock of the run in its arguments record
evaluation_date_drift(args) == args.current_date + (IF calc_ret.done THEN 1 ELSE 0)

evaluation_date(args) == args.current_date

calculate_yearly_summary(debtor_name, total_loan, payments_df, current_date) ==
    LET loan    == coerce_loan(total_loan)
        target  == yearly_target_of(loan)
        periods == get_debt_periods
        summary == [i \in 1..4 |->
                      period_record(debtor_name, target, payments_df,
                                    current_date, periods[i])]
        total_paid == SumField(summary, "paid")
        total_fine == SumField(summary, "fine")
    IN  [summary_data |-> summary,
         total_paid_all_years |-> total_paid,
         total_fine_all_years |-> total_fine,
         remaining_overall_debt_with_fine |->
             Max(0, loan * 100 - total_paid) + total_fine * 100]


----------------------------------------------------------------------------
(* Worksheet cells and rows *)

\* _normalize_gsheet_col_name on the cell texts of the model: strip() removes
\* the trailing blank of "Bob "; every other text of the model is unchanged
_normalize_gsheet_col_name(text) == IF text = "Bob " THEN "Bob" ELSE text

DateCell(fmt, day) == [fmt |-> fmt, day |-> day]
AmountCell(fmt, num) == [fmt |-> fmt, num |-> num]
LoanCell(num, v) == [num |-> num, v |-> v]

\* the header rows (CUSTOMER_GSHEET_COLS, PAYMENT_GSHEET_COLS)
CUSTOMER_GSHEET_COLS ==
    [seq |-> 0, name |-> "<name>", loan |-> LoanCell(FALSE, 0)]

PAYMENT_GSHEET_COLS ==
    [payer |-> "<payer>", date |-> DateCell("hdr", 0),
     amount |-> AmountCell("hdr", 0), note |-> "<note>"]

PayRow(payer, date_text, amount, note) ==
    [payer |-> payer, date |-> date_text, amount |-> amount, note |-> note]

\* a row of empty cells, as get_all_values() returns for a blank row above
\* the last used row
EmptyRow == PayRow("", DateCell("bad", 0), AmountCell("bad", 0), "")

\* sheet.clear()
SheetClear(sheet) == <<>>

\* sheet.update(values): writes the block of `values` from A1 down; cells of
\* rows below the block keep what they held
SheetUpdate(sheet, values) ==
    [i \in 1..Max(Len(sheet), Len(values)) |->
        IF i <= Len(values) THEN values[i] ELSE sheet[i]]

\* ws.update("A<i>:D<i>", [row]): one row written at 1-based index i
SheetReplaceAll(sheet, i, row) ==
    IF sheet = <<>> THEN <<row>> ELSE <<Head(sheet), row>>

SheetUpdateRow(sheet, i, row) ==
    [k \in 1..Max(Len(sheet), i) |->
        IF k = i THEN row ELSE IF k <= Len(sheet) THEN sheet[k] ELSE EmptyRow]

\* read_sheet_to_df: no values at all gives the empty frame, else the rows
\* under the header
read_sheet_to_df(sheet) == IF sheet = <<>> THEN <<>> ELSE Tail(sheet)

\* write_df_to_sheet: data_to_upload, then clear(), then update()
data_to_upload(cols, rows) == <<cols>> \o rows

\* what the worksheet holds when write_df_to_sheet ends: the remote calls may
\* raise ("open": before clear; "update": after clear, before update)
write_df_to_sheet(sheet, cols, rows, outcome) ==
    IF outcome = "open" THEN sheet
    ELSE IF outcome = "update" THEN SheetClear(sheet)
    ELSE SheetUpdate(SheetClear(sheet), data_to_upload(cols, rows))

----------------------------------------------------------------------------
(* load_data *)

RECURSIVE Insert(_, _)
Insert(sorted, r) ==
    IF sorted = <<>> THEN <<r>>
    ELSE IF Head(sorted).seq <= r.seq THEN <<Head(sorted)>> \o Insert(Tail(sorted), r)
    ELSE <<r>> \o sorted

\* the frame left in the order of the sheet
sort_none(rows) == rows

RECURSIVE sort_values(_)
\* sort_values(by=sequence number, ascending=True); rows with equal keys keep
\* their order
sort_values(rows) ==
    IF rows = <<>> THEN <<>>
    ELSE Insert(sort_values(SubSeq(rows, 1, Len(rows) - 1)), rows[Len(rows)])

\* customers_df after cleaning: loans numeric (NaN as 0), rows sorted by the
\* stored sequence number and renumbered 1..N
load_customers(sheet) ==
    LET sorted == sort_values(read_sheet_to_df(sheet))
    IN  [i \in 1..Len(sorted) |->
            [seq |-> i, name |-> sorted[i].name,
             loan |-> coerce_loan(sorted[i].loan)]]

\* pd.to_datetime with the day-first fallback: NaT for text no format accepts
date_parsed(cell) == cell.fmt \in {"ymd", "dmy"}

RECURSIVE dropna(_)
\* payments_df.dropna(subset=[date_dt])
dropna(rows) ==
    IF rows = <<>> THEN <<>>
    ELSE IF date_parsed(Head(rows).date) THEN <<Head(rows)>> \o dropna(Tail(rows))
    ELSE dropna(Tail(rows))

\* payments_df after cleaning: the amount numeric (every character other than
\* digits and "." removed first), the date parsed, rows without a date dropped
load_payments(sheet) ==
    LET kept == dropna(read_sheet_to_df(sheet))
    IN  [i \in 1..Len(kept) |->
            [payer   |-> kept[i].payer,
             date    |-> kept[i].date,
             date_dt |-> kept[i].date.day,
             amount  |-> kept[i].amount.num,
             note    |-> kept[i].note,
             temp_index |-> i - 1]]

LoadData(customers_sheet, pay_sheet) ==
    [valid |-> TRUE,
     customers_df |-> load_customers(customers_sheet),
     payments_df  |-> load_payments(pay_sheet)]

NoCache == [valid |-> FALSE, customers_df |-> <<>>, payments_df |-> <<>>]

\* load_data() under st.cache_data: the cached value when there is one
load_data == IF cache.valid THEN cache ELSE LoadData(customers, pay)

debtor_names_of(customers_df) == [i \in 1..Len(customers_df) |-> customers_df[i].name]

Range(s) == {s[i] : i \in 1..Len(s)}

\* the sequences over S of length at most n
SeqsUpTo(S, n) == UNION {[1..k -> S] : k \in 0..n}

\* customers_df[CUSTOMER_GSHEET_COLS] as written: every value as text
customers_as_text(customers_df) ==
    [i \in 1..Len(customers_df) |->
        [seq |-> customers_df[i].seq, name |-> customers_df[i].name,
         loan |-> LoanCell(TRUE, customers_df[i].loan)]]

\* payments_df[PAYMENT_GSHEET_COLS] as written: the date column still holds
\* the text read from the sheet, the amount is the cleaned number as text
payments_as_text(payments_df) ==
    [i \in 1..Len(payments_df) |->
        PayRow(payments_df[i].payer, payments_df[i].date,
               AmountCell("plain", payments_df[i].amount), payments_df[i].note)]

----------------------------------------------------------------------------
(* What the user can enter *)

DebtorNames == {"Ann", "Bob"}
\* the names a sheet kept by hand may hold as well
SheetNames == DebtorNames \cup {"Bob "}
PayDates == {date(2025, 6, 1)}
Amounts == {10, 20}
Notes == {""}
NewLoans == {100}
EditedLoans == {100}

NoDebtor == "<none>"
NoEdit == [sheet_row_index |-> 0, debtor_name |-> "", payment_date |-> 0,
           amount |-> 0, note |-> ""]

Op(op, result, arg) == [op |-> op, result |-> result, arg |-> arg]

\* read_sheet_to_df stops the script when a required column is missing from
\* the first row of a sheet that is not empty
HeaderOK(sheet, cols) == IF sheet = <<>> THEN TRUE ELSE sheet[1] = cols

\* the script gets past load_data(): a cached value, or both sheets readable
CanLoad ==
    IF cache.valid THEN TRUE
    ELSE HeaderOK(customers, CUSTOMER_GSHEET_COLS) /\ HeaderOK(pay, PAYMENT_GSHEET_COLS)

\* the selectbox of the main page: the stored selection when it is one of the
\* options, else the first option
main_selected(names) ==
    IF selected_debtor \in Range(names) THEN selected_debtor
    ELSE IF names # <<>> THEN names[1] ELSE NoDebtor

calc_idle == [debtor_name |-> "", total_loan |-> LoanCell(TRUE, 0),
              payments_df |-> <<>>, current_date |-> 0]
no_ret == [done |-> FALSE, current_date |-> 0,
           summary_data |-> <<>>, total_paid_all_years |-> 0,
           total_fine_all_years |-> 0, remaining_overall_debt_with_fine |-> 0]

\* clear_cache_and_rerun: the cache is emptied and the script runs again from
\* the top, where load_data() reads both sheets (and stops the script, leaving
\* the cache empty, when a sheet cannot be read)
clear_cache_and_rerun(customers_sheet, pay_sheet) ==
    IF HeaderOK(customers_sheet, CUSTOMER_GSHEET_COLS)
       /\ HeaderOK(pay_sheet, PAYMENT_GSHEET_COLS)
    THEN LoadData(customers_sheet, pay_sheet)
    ELSE NoCache

no_prev == [done |-> FALSE, args |-> calc_idle, ret |-> no_ret]

calc_unchanged == UNCHANGED <<calc_args, calc_ret, calc_prev>>

\* a remote call raises only while the model's budget of failures lasts
Raises(outcome) ==
    IF outcome = "ok" THEN UNCHANGED faults
    ELSE faults < MaxFaults /\ faults' = faults + 1
race_unchanged == UNCHANGED <<wpc, wdata, finished>>

\* before the payment history has been rendered
no_history == [done |-> FALSE, temp_index |-> 0, row_index_in_gsheet |-> 0,
               edit_button |-> FALSE]

----------------------------------------------------------------------------
(* Main page: choose a debtor *)

SelectDebtor(name) ==
    LET ld == load_data
    IN  /\ CanLoad
        /\ name \in Range(debtor_names_of(ld.customers_df))
        /\ selected_debtor' = name
        /\ cache' = ld
        /\ last_op' = Op("select_debtor", "ok", "")
        /\ UNCHANGED <<customers, pay, show_edit_form, edit_payment_data, faults>>
        /\ calc_unchanged /\ race_unchanged /\ UNCHANGED history_row

(* Main page: the payment form (record a payment) *)

\* the rows the handler writes: the loaded payments and the new one
updated_payments(payments_df, new_row) ==
    payments_as_text(payments_df) \o <<new_row>>

RecordPayment(pay_date, amount, note, outcome) ==
    LET ld   == load_data
        sel  == main_selected(debtor_names_of(ld.customers_df))
        rows == updated_payments(ld.payments_df,
                    PayRow(sel, DateCell("ymd", pay_date),
                           AmountCell("plain", amount), note))
    IN  /\ CanLoad
        /\ sel # NoDebtor
        /\ Len(rows) <= MaxRows
        /\ Raises(outcome)
        /\ pay' = write_df_to_sheet(pay, PAYMENT_GSHEET_COLS, rows, outcome)
        /\ cache' = IF outcome = "ok" THEN clear_cache_and_rerun(customers, pay') ELSE ld
        /\ selected_debtor' = sel
        /\ last_op' = Op("record_payment",
                         IF outcome = "ok" THEN "ok" ELSE "failed", "")
        /\ UNCHANGED <<customers, show_edit_form, edit_payment_data>>
        /\ calc_unchanged /\ race_unchanged /\ UNCHANGED history_row

----------------------------------------------------------------------------
(* Main page: the payment history and its edit buttons *)

\* the condition under which a sheet row is the in-memory payment
row_matches_no_amount(gsheet_row, row) ==
    /\ _normalize_gsheet_col_name(gsheet_row.payer) = row.payer
    /\ gsheet_row.date.fmt = "ymd" /\ gsheet_row.date.day = row.date_dt
    /\ _normalize_gsheet_col_name(gsheet_row.note) = row.note

row_matches(gsheet_row, row) ==
    /\ _normalize_gsheet_col_name(gsheet_row.payer) = row.payer
    \* the cell text against strftime("%Y-%m-%d") of the parsed date
    /\ gsheet_row.date.fmt = "ymd" /\ gsheet_row.date.day = row.date_dt
    \* pd.to_numeric of the cell text: NaN unless plain digits
    /\ gsheet_row.amount.fmt = "plain" /\ gsheet_row.amount.num = row.amount
    /\ _normalize_gsheet_col_name(gsheet_row.note) = row.note

\* a scan that keeps going after a match and so ends on the last one
row_index_last(all_pay_values, row) ==
    LET hits == {i \in 2..Len(all_pay_values) : row_matches(all_pay_values[i], row)}
    IN  IF hits = {} THEN -1 ELSE CHOOSE i \in hits : \A j \in hits : j <= i

\* the scan of all_pay_values[1:]: the 1-based sheet row of the first match,
\* -1 when no row matches, the header cannot be read or the sheet is empty
row_index_in_gsheet(all_pay_values, row) ==
    LET hits == {i \in 2..Len(all_pay_values) : row_matches(all_pay_values[i], row)}
    IN  IF hits = {} THEN -1 ELSE CHOOSE i \in hits : \A j \in hits : i <= j

ClickEdit(i) ==
    LET ld  == load_data
        sel == main_selected(debtor_names_of(ld.customers_df))
    IN  /\ CanLoad
        /\ HeaderOK(pay, PAYMENT_GSHEET_COLS)
        /\ i \in 1..Len(ld.payments_df)
        /\ ld.payments_df[i].payer = sel
        /\ LET row == ld.payments_df[i]
               idx == row_index_in_gsheet(pay, row)
           IN  /\ idx # -1
               /\ edit_payment_data' =
                     [sheet_row_index |-> idx, debtor_name |-> row.payer,
                      payment_date |-> row.date_dt, amount |-> row.amount,
                      note |-> row.note]
        /\ show_edit_form' = TRUE
        /\ selected_debtor' = sel
        /\ cache' = ld
        /\ last_op' = Op("edit_button", "ok", "")
        /\ UNCHANGED <<customers, pay, faults>>
        /\ calc_unchanged /\ race_unchanged /\ UNCHANGED history_row

\* one iteration of the payment history loop for the displayed payment i:
\* the sheet is fetched and scanned; without a match the warning is shown
\* and `continue` skips the expander, so the row gets no edit button
HistoryRow(i) ==
    LET ld  == load_data
        sel == main_selected(debtor_names_of(ld.customers_df))
    IN  /\ CanLoad
        /\ HeaderOK(pay, PAYMENT_GSHEET_COLS)
        /\ i \in 1..Len(ld.payments_df)
        /\ ld.payments_df[i].payer = sel
        /\ LET row == ld.payments_df[i]
               idx == row_index_in_gsheet(pay, row)
           IN  /\ history_row' =
                     [done |-> TRUE, temp_index |-> row.temp_index,
                      row_index_in_gsheet |-> idx, edit_button |-> idx # -1]
               /\ last_op' = Op("history_row",
                                IF idx = -1 THEN "not_found" ELSE "ok", "")
        /\ selected_debtor' = sel
        /\ cache' = ld
        /\ UNCHANGED <<customers, pay, show_edit_form, edit_payment_data, faults>>
        /\ calc_unchanged /\ race_unchanged

\* the row the update writes
updated_payment_list_for_gsheet(edit_data, edited_date, edited_amount, edited_note) ==
    PayRow(edit_data.debtor_name, DateCell("ymd", edited_date),
           AmountCell("plain", edited_amount), edited_note)

\* the sheet row the update is written to
update_target(all_pay_values, edit_data) == edit_data.sheet_row_index

UpdatePayment(edited_date, edited_amount, edited_note, outcome) ==
    LET ld  == load_data
        sel == main_selected(debtor_names_of(ld.customers_df))
        edit_data == edit_payment_data
    IN  /\ CanLoad
        /\ show_edit_form
        /\ Raises(outcome)
        /\ selected_debtor' = sel
        /\ IF outcome = "ok"
           THEN /\ pay' = SheetUpdateRow(pay, update_target(pay, edit_data),
                              updated_payment_list_for_gsheet(
                                  edit_data, edited_date, edited_amount, edited_note))
                /\ show_edit_form' = FALSE
                /\ cache' = clear_cache_and_rerun(customers, pay')
                /\ last_op' = Op("update_payment", "ok", "")
           ELSE /\ UNCHANGED <<pay, show_edit_form>>
                /\ cache' = ld
                /\ last_op' = Op("update_payment", "failed", "")
        /\ UNCHANGED <<customers, edit_payment_data>>
        /\ calc_unchanged /\ race_unchanged /\ UNCHANGED history_row

CancelEdit ==
    LET ld  == load_data
        sel == main_selected(debtor_names_of(ld.customers_df))
    IN  /\ CanLoad
        /\ show_edit_form
        /\ show_edit_form' = FALSE
        /\ selected_debtor' = sel
        /\ cache' = ld
        /\ last_op' = Op("cancel_edit", "ok", "")
        /\ UNCHANGED <<customers, pay, edit_payment_data, faults>>
        /\ calc_unchanged /\ race_unchanged /\ UNCHANGED history_row

----------------------------------------------------------------------------
(* Manage page: add a debtor, edit a loan amount, delete a debtor *)

\* the add form accepts a name unless it is among debtor_names
name_taken_never(new_name, names) == FALSE

name_taken(new_name, names) == new_name \in Range(names)

AddDebtor(new_name, new_total, outcome) ==
    LET ld    == load_data
        names == debtor_names_of(ld.customers_df)
        new_id == Len(ld.customers_df) + 1
        rows  == customers_as_text(ld.customers_df)
                   \o <<[seq |-> new_id, name |-> new_name,
                         loan |-> LoanCell(TRUE, new_total)]>>
    IN  /\ CanLoad
        /\ IF name_taken(new_name, names)
           THEN /\ outcome = "ok"
                /\ UNCHANGED <<customers, faults>>
                /\ cache' = ld
                /\ last_op' = Op("add_debtor", "rejected", new_name)
           ELSE /\ Len(rows) <= MaxDebtors
                /\ Raises(outcome)
                /\ customers' = write_df_to_sheet(customers, CUSTOMER_GSHEET_COLS,
                                                  rows, outcome)
                /\ cache' = IF outcome = "ok"
                              THEN clear_cache_and_rerun(customers', pay) ELSE ld
                /\ last_op' = Op("add_debtor",
                                 IF outcome = "ok" THEN "ok" ELSE "failed", new_name)
        /\ UNCHANGED <<pay, selected_debtor, show_edit_form, edit_payment_data>>
        /\ calc_unchanged /\ race_unchanged /\ UNCHANGED history_row

EditLoan(debtor_to_edit_loan, new_loan_amount, outcome) ==
    LET ld   == load_data
        rows == customers_as_text(
                   [i \in 1..Len(ld.customers_df) |->
                      IF ld.customers_df[i].name = debtor_to_edit_loan
                        THEN [ld.customers_df[i] EXCEPT !.loan = new_loan_amount]
                        ELSE ld.customers_df[i]])
    IN  /\ CanLoad
        /\ debtor_to_edit_loan \in Range(debtor_names_of(ld.customers_df))
        /\ Raises(outcome)
        /\ customers' = write_df_to_sheet(customers, CUSTOMER_GSHEET_COLS, rows, outcome)
        /\ cache' = IF outcome = "ok" THEN clear_cache_and_rerun(customers', pay) ELSE ld
        /\ last_op' = Op("edit_loan",
                         IF outcome = "ok" THEN "ok" ELSE "failed", "")
        /\ UNCHANGED <<pay, selected_debtor, show_edit_form, edit_payment_data>>
        /\ calc_unchanged /\ race_unchanged /\ UNCHANGED history_row

\* customers_df[customers_df[name] != debtor_to_delete], as written
updated_customers_df(customers_df, debtor_to_delete) ==
    customers_as_text(SelectSeq(customers_df, LAMBDA c : c.name # debtor_to_delete))

\* the rows of the pay sheet the delete handler keeps: the first row, and every
\* row whose normalized payer is not the deleted name (every row when the
\* first row has no payer column)
pay_data_to_keep(all_pay_values, debtor_to_delete) ==
    <<all_pay_values[1]>> \o
    SelectSeq(Tail(all_pay_values),
              LAMBDA r : \/ all_pay_values[1] # PAYMENT_GSHEET_COLS
                         \/ _normalize_gsheet_col_name(r.payer) # debtor_to_delete)

\* the handler up to and including the write of the customers sheet: st.stop()
\* when that write raises
DeleteCustomersFails(debtor_to_delete, outcome) ==
    LET ld == load_data
    IN  /\ CanLoad
        /\ debtor_to_delete \in Range(debtor_names_of(ld.customers_df))
        /\ outcome \in {"open", "update"}
        /\ Raises(outcome)
        /\ customers' = write_df_to_sheet(customers, CUSTOMER_GSHEET_COLS,
                            updated_customers_df(ld.customers_df, debtor_to_delete),
                            outcome)
        /\ cache' = ld
        /\ last_op' = Op("delete_debtor", "failed", debtor_to_delete)
        /\ UNCHANGED <<pay, selected_debtor, show_edit_form, edit_payment_data>>
        /\ calc_unchanged /\ race_unchanged /\ UNCHANGED history_row

\* customers written; then the pay sheet: read, filter, clear, update.
\* outcome: "read", "clear", "update" = the remote call that raises; "ok"
DeletePayments(debtor_to_delete, outcome) ==
    LET ld == load_data
    IN  /\ CanLoad
        /\ debtor_to_delete \in Range(debtor_names_of(ld.customers_df))
        /\ customers' = write_df_to_sheet(customers, CUSTOMER_GSHEET_COLS,
                            updated_customers_df(ld.customers_df, debtor_to_delete),
                            "ok")
        /\ Raises(IF pay = <<>> /\ outcome # "read" THEN "ok" ELSE outcome)
        /\ IF outcome = "read"
           THEN /\ UNCHANGED pay
                /\ cache' = ld
                /\ last_op' = Op("delete_debtor", "failed", debtor_to_delete)
           ELSE IF pay = <<>>
           \* "no history": success is reported, the cache is left as it is
           THEN /\ outcome = "ok"
                /\ UNCHANGED pay
                /\ cache' = ld
                /\ last_op' = Op("delete_debtor", "ok", debtor_to_delete)
           ELSE IF outcome = "clear"
           THEN /\ UNCHANGED pay
                /\ cache' = ld
                /\ last_op' = Op("delete_debtor", "failed", debtor_to_delete)
           ELSE IF outcome = "update"
           THEN /\ pay' = SheetClear(pay)
                /\ cache' = ld
                /\ last_op' = Op("delete_debtor", "failed", debtor_to_delete)
           ELSE /\ pay' = SheetUpdate(SheetClear(pay),
                                      pay_data_to_keep(pay, debtor_to_delete))
                /\ cache' = clear_cache_and_rerun(customers', pay')
                /\ last_op' = Op("delete_debtor", "ok", debtor_to_delete)
        /\ UNCHANGED <<selected_debtor, show_edit_form, edit_payment_data>>
        /\ calc_unchanged /\ race_unchanged /\ UNCHANGED history_row

----------------------------------------------------------------------------
(* The application, one browser session *)

WriteOutcomes == {"open", "update", "ok"}

\* the stores the session may find: a new spreadsheet with two empty sheets;
\* a spreadsheet kept by hand (sequence numbers with gaps, a name typed with a
\* trailing blank, a date typed as free text, a day-first date, an amount with
\* a thousands separator); a spreadsheet the application wrote
FreshStore == [customers |-> <<>>, pay |-> <<>>]

HandStore ==
    [customers |-> <<CUSTOMER_GSHEET_COLS,
                     [seq |-> 5, name |-> "Bob ", loan |-> LoanCell(TRUE, 100)],
                     [seq |-> 2, name |-> "Ann", loan |-> LoanCell(FALSE, 0)]>>,
     pay |-> <<PAYMENT_GSHEET_COLS,
               PayRow("Bob ", DateCell("dmy", date(2025, 6, 1)),
                      AmountCell("comma", 10), ""),
               PayRow("Ann", DateCell("bad", 0), AmountCell("plain", 10), "")>>]

TidyStore ==
    [customers |-> <<CUSTOMER_GSHEET_COLS,
                     [seq |-> 1, name |-> "Bob", loan |-> LoanCell(TRUE, 100)],
                     [seq |-> 2, name |-> "Ann", loan |-> LoanCell(TRUE, 100)]>>,
     pay |-> <<PAYMENT_GSHEET_COLS,
               PayRow("Bob", DateCell("ymd", date(2025, 6, 1)),
                      AmountCell("plain", 10), ""),
               PayRow("Ann", DateCell("ymd", date(2025, 6, 1)),
                      AmountCell("plain", 10), ""),
               PayRow("Ann", DateCell("ymd", date(2025, 6, 1)),
                      AmountCell("plain", 20), "")>>]

InitStores == {FreshStore, HandStore, TidyStore}

Init ==
    /\ \E st \in InitStores :
          /\ customers = st.customers
          /\ pay = st.pay
    /\ cache = LoadData(customers, pay)
    /\ selected_debtor =
          (IF Len(customers) > 1 THEN cache.customers_df[1].name ELSE NoDebtor)
    /\ show_edit_form = FALSE
    /\ edit_payment_data = NoEdit
    /\ last_op = Op("init", "ok", "")
    /\ faults = 0
    /\ calc_args = calc_idle
    /\ calc_ret = no_ret
    /\ calc_prev = no_prev
    /\ wpc = <<>>
    /\ wdata = <<>>
    /\ finished = <<>>
    /\ history_row = no_history

Next ==
    \/ \E name \in SheetNames : SelectDebtor(name)
    \/ \E d \in PayDates, a \in Amounts, n \in Notes, o \in WriteOutcomes :
          RecordPayment(d, a, n, o)
    \/ \E i \in 1..MaxRows : ClickEdit(i)
    \/ \E a \in Amounts, o \in {"ok", "api_error"} :
          UpdatePayment(edit_payment_data.payment_date, a, edit_payment_data.note, o)
    \/ CancelEdit
    \/ \E name \in DebtorNames, t \in NewLoans, o \in WriteOutcomes :
          AddDebtor(name, t, o)
    \/ \E name \in SheetNames, t \in EditedLoans, o \in WriteOutcomes :
          EditLoan(name, t, o)
    \/ \E name \in SheetNames, o \in {"open", "update"} :
          DeleteCustomersFails(name, o)
    \/ \E name \in SheetNames, o \in {"read", "clear", "update", "ok"} :
          DeletePayments(name, o)

Spec == Init /\ [][Next]_vars

----------------------------------------------------------------------------
(* The main page on its own: choose a debtor, record, edit *)

NextMain ==
    \/ \E name \in SheetNames : SelectDebtor(name)
    \/ \E d \in PayDates, a \in Amounts, n \in Notes, o \in WriteOutcomes :
          RecordPayment(d, a, n, o)
    \/ \E i \in 1..MaxRows : ClickEdit(i)
    \/ \E a \in Amounts, o \in {"ok", "api_error"} :
          UpdatePayment(edit_payment_data.payment_date, a, edit_payment_data.note, o)
    \/ CancelEdit

SpecMain == Init /\ [][NextMain]_vars

----------------------------------------------------------------------------
(* The manage page on its own: add, edit loan, delete *)

NextManage ==
    \/ \E name \in DebtorNames, t \in NewLoans, o \in WriteOutcomes :
          AddDebtor(name, t, o)
    \/ \E name \in SheetNames, t \in EditedLoans, o \in WriteOutcomes :
          EditLoan(name, t, o)
    \/ \E name \in SheetNames, o \in {"open", "update"} :
          DeleteCustomersFails(name, o)
    \/ \E name \in SheetNames, o \in {"read", "clear", "update", "ok"} :
          DeletePayments(name, o)

SpecManage == Init /\ [][NextManage]_vars

----------------------------------------------------------------------------
(* load_data on its own: one load of a customers sheet *)

\* stored rows: sequence numbers with gaps, repeated, not numeric (read as 0)
LoadRows ==
    [seq : {0, 1, 2, 5}, name : DebtorNames,
     loan : {LoanCell(TRUE, 100), LoanCell(FALSE, 0)}]

InitLoad ==
    /\ customers \in {<<>>} \cup
          {<<CUSTOMER_GSHEET_COLS>> \o rows : rows \in SeqsUpTo(LoadRows, MaxDebtors)}
    /\ pay = <<>>
    /\ cache = NoCache
    /\ selected_debtor = NoDebtor
    /\ show_edit_form = FALSE
    /\ edit_payment_data = NoEdit
    /\ last_op = Op("init", "ok", "")
    /\ faults = 0
    /\ calc_args = calc_idle
    /\ calc_ret = no_ret
    /\ calc_prev = no_prev
    /\ wpc = <<>>
    /\ wdata = <<>>
    /\ finished = <<>>
    /\ history_row = no_history

Load ==
    /\ ~cache.valid
    /\ cache' = load_data
    /\ UNCHANGED <<customers, pay, selected_debtor, show_edit_form,
                   edit_payment_data, last_op, faults>>
    /\ calc_unchanged /\ race_unchanged /\ UNCHANGED history_row

NextLoad == Load

SpecLoad == InitLoad /\ [][NextLoad]_vars

----------------------------------------------------------------------------
(* The row matching on its own: the history loop over hand-edited sheets *)

\* pay rows as a sheet may hold them: a payer with and without a trailing
\* blank, the date year-first or day-first, the amount plain or with commas
ScanRows ==
    {PayRow(payer, DateCell(fmt, date(2025, 6, 1)), amount, "") :
        payer \in {"Ann", "Bob", "Bob "}, fmt \in {"ymd", "dmy"},
        amount \in {AmountCell("plain", 10), AmountCell("plain", 20),
                    AmountCell("comma", 10)}}

InitScan ==
    /\ customers \in {TidyStore.customers, HandStore.customers}
    /\ pay \in {<<PAYMENT_GSHEET_COLS>> \o rows : rows \in SeqsUpTo(ScanRows, MaxRows)}
    /\ cache = NoCache
    /\ selected_debtor = NoDebtor
    /\ show_edit_form = FALSE
    /\ edit_payment_data = NoEdit
    /\ last_op = Op("init", "ok", "")
    /\ faults = 0
    /\ calc_args = calc_idle
    /\ calc_ret = no_ret
    /\ calc_prev = no_prev
    /\ wpc = <<>>
    /\ wdata = <<>>
    /\ finished = <<>>
    /\ history_row = no_history

NextScan ==
    \/ \E name \in SheetNames : SelectDebtor(name)
    \/ \E i \in 1..MaxRows : HistoryRow(i)
    \/ \E i \in 1..MaxRows : ClickEdit(i)

SpecScan == InitScan /\ [][NextScan]_vars

----------------------------------------------------------------------------
(* The calculator on its own: calculate_yearly_summary applied to arguments *)

\* loans as the caller may pass them: not numeric, negative, zero, with a
\* fractional quarter, with a quarter whose 15% is a tie, the scenario's loan
CalcLoans == {LoanCell(FALSE, 0), LoanCell(TRUE, -100), LoanCell(TRUE, 0),
              LoanCell(TRUE, 10), LoanCell(TRUE, 120), LoanCell(TRUE, 100000)}

CalcDates ==
    {get_debt_periods[1].start - 1, get_debt_periods[1].start,
     get_debt_periods[1].end, get_debt_periods[1].end + 1,
     get_debt_periods[4].end, get_debt_periods[4].end + 1}

CalcNows ==
    {get_debt_periods[1].start, get_debt_periods[1].end,
     get_debt_periods[1].end + 1, get_debt_periods[4].end + 1}

CalcPayments ==
    [payer : {"Ann", "Bob"}, date_dt : CalcDates, amount : {10, 25000}]

InitCalc ==
    /\ calc_args \in [debtor_name : {"Ann"}, total_loan : CalcLoans,
                      payments_df : SeqsUpTo(CalcPayments, MaxPayments),
                      current_date : CalcNows]
    /\ calc_ret = no_ret
    /\ calc_prev = no_prev
    /\ customers = <<>>
    /\ pay = <<>>
    /\ cache = NoCache
    /\ selected_debtor = NoDebtor
    /\ show_edit_form = FALSE
    /\ edit_payment_data = NoEdit
    /\ last_op = Op("init", "ok", "")
    /\ faults = 0
    /\ wpc = <<>>
    /\ wdata = <<>>
    /\ finished = <<>>
    /\ history_row = no_history

\* the value a call with the arguments calc_args returns
Returned ==
    LET r == calculate_yearly_summary(calc_args.debtor_name, calc_args.total_loan,
                                      calc_args.payments_df, evaluation_date(calc_args))
    IN  [done |-> TRUE,
         current_date |-> evaluation_date(calc_args),
         summary_data |-> r.summary_data,
         total_paid_all_years |-> r.total_paid_all_years,
         total_fine_all_years |-> r.total_fine_all_years,
         remaining_overall_debt_with_fine |-> r.remaining_overall_debt_with_fine]

Calculate ==
    /\ ~calc_ret.done
    /\ calc_ret' = Returned
    /\ UNCHANGED <<calc_args, calc_prev, customers, pay, cache, selected_debtor,
                   show_edit_form, edit_payment_data, last_op, faults>>
    /\ race_unchanged /\ UNCHANGED history_row

NextCalc == Calculate

SpecCalc == InitCalc /\ [][NextCalc]_vars

----------------------------------------------------------------------------
(* The calculator called again (every rerun of the script calls it) *)

TwicePayments ==
    [payer : {"Ann", "Bob"},
     date_dt : {get_debt_periods[1].start, get_debt_periods[1].end + 1},
     amount : {25000}]

InitTwice ==
    /\ calc_args \in [debtor_name : {"Ann"}, total_loan : CalcLoans,
                      payments_df : SeqsUpTo(TwicePayments, MaxPayments),
                      current_date : CalcNows]
    /\ calc_ret = no_ret
    /\ calc_prev = no_prev
    /\ customers = <<>>
    /\ pay = <<>>
    /\ cache = NoCache
    /\ selected_debtor = NoDebtor
    /\ show_edit_form = FALSE
    /\ edit_payment_data = NoEdit
    /\ last_op = Op("init", "ok", "")
    /\ faults = 0
    /\ wpc = <<>>
    /\ wdata = <<>>
    /\ finished = <<>>
    /\ history_row = no_history

\* a later rerun of the script calls the function with the same debtor, loan
\* and payments
Recalculate ==
    /\ calc_ret.done
    /\ ~calc_prev.done
    /\ calc_prev' = [done |-> TRUE,
                     args |-> [calc_args EXCEPT !.current_date = calc_ret.current_date],
                     ret  |-> calc_ret]
    /\ calc_ret' = Returned
    /\ UNCHANGED <<calc_args, customers, pay, cache, selected_debtor,
                   show_edit_form, edit_payment_data, last_op, faults>>
    /\ race_unchanged /\ UNCHANGED history_row

\* the clock moves on to a later evaluation date between two runs
DayPasses ==
    /\ calc_ret.done
    /\ ~calc_prev.done
    /\ \E d \in CalcNows :
          /\ d > calc_args.current_date
          /\ calc_args' = [calc_args EXCEPT !.current_date = d]
    /\ UNCHANGED <<calc_ret, calc_prev, customers, pay, cache, selected_debtor,
                   show_edit_form, edit_payment_data, last_op, faults>>
    /\ race_unchanged /\ UNCHANGED history_row

NextTwice == Calculate \/ Recalculate \/ DayPasses

SpecTwice == InitTwice /\ [][NextTwice]_vars

----------------------------------------------------------------------------
(* Claims about the calculator (checked under SpecCalc) *)

ArgLoan == IF calc_args.total_loan.num THEN calc_args.total_loan.v ELSE 0

RECURSIVE SumAmounts(_, _)
\* the sum of the amounts of the payments at the indices K, in baht
SumAmounts(df, K) ==
    IF K = {} THEN 0
    ELSE LET k == CHOOSE x \in K : TRUE
         IN  df[k].amount + SumAmounts(df, K \ {k})

\* C8: for every loan amount L >= 0 each of the four periods carries the same
\* target, a quarter of L, and the four targets add up to exactly L (amounts
\* in hundredths of a baht).
C8_TargetsSumToLoan ==
    (calc_ret.done /\ ArgLoan >= 0) =>
        /\ \A i \in 1..4 : 4 * calc_ret.summary_data[i].target = 100 * ArgLoan
        /\ SumField(calc_ret.summary_data, "target") = 100 * ArgLoan

C8_Witness ==
    /\ calc_ret.done
    /\ calc_args.total_loan = LoanCell(TRUE, 10)
    /\ calc_ret.summary_data[1].target = 250

\* C9: for a debtor (loan >= 0) none of whose payments is in payments_df, every
\* period's shortfall equals its target, and every period whose end date is
\* before the evaluation date carries the fine round(target * 0.15); with a
\* loan of 100,000 evaluated one day after the first period's end that is a
\* fine of 3,750 and a remaining debt of 103,750.
C9_NoPaymentsFullShortfall ==
    (/\ calc_ret.done
     /\ ArgLoan >= 0
     /\ \A k \in 1..Len(calc_args.payments_df) :
            calc_args.payments_df[k].payer # calc_args.debtor_name)
    => /\ \A i \in 1..4 :
            /\ calc_ret.summary_data[i].shortfall = calc_ret.summary_data[i].target
            /\ calc_args.current_date > get_debt_periods[i].end
                 => calc_ret.summary_data[i].fine * 10000
                      \in (calc_ret.summary_data[i].target * 15 - 5000)
                          .. (calc_ret.summary_data[i].target * 15 + 5000)
       /\ (ArgLoan = 100000 /\ calc_args.current_date = get_debt_periods[1].end + 1)
            => /\ calc_ret.summary_data[1].shortfall = 2500000
               /\ calc_ret.summary_data[1].fine = 3750
               /\ calc_ret.total_fine_all_years = 3750
               /\ calc_ret.remaining_overall_debt_with_fine = 10375000

C9_Witness ==
    /\ calc_ret.done
    /\ ArgLoan = 100000
    /\ calc_args.current_date = get_debt_periods[1].end + 1
    /\ Len(calc_args.payments_df) = 2
    /\ \A k \in 1..Len(calc_args.payments_df) :
          /\ calc_args.payments_df[k].payer = "Bob"
          /\ calc_args.payments_df[k].date_dt = get_debt_periods[1].start
    /\ calc_ret.summary_data[1].fine = 3750

\* C10: the amount counted as paid in period i is the sum of the payments of
\* this debtor dated from the period's start to its end, both days included;
\* payments of other payers, and payments dated the day before the first
\* period or the day after the last, are counted in no period.
C10_PaidInPeriodInclusive ==
    calc_ret.done =>
        LET df == calc_args.payments_df
            mine(i) == {k \in 1..Len(df) :
                          /\ df[k].payer = calc_args.debtor_name
                          /\ get_debt_periods[i].start <= df[k].date_dt
                          /\ df[k].date_dt <= get_debt_periods[i].end}
            counted == UNION {mine(i) : i \in 1..4}
        IN  /\ \A i \in 1..4 :
                 calc_ret.summary_data[i].paid = 100 * SumAmounts(df, mine(i))
            /\ calc_ret.total_paid_all_years = 100 * SumAmounts(df, counted)
            /\ \A k \in 1..Len(df) :
                 (\/ df[k].payer # calc_args.debtor_name
                  \/ df[k].date_dt = get_debt_periods[1].start - 1
                  \/ df[k].date_dt = get_debt_periods[4].end + 1)
                 => k \notin counted

C10_Witness ==
    /\ calc_ret.done
    /\ Len(calc_args.payments_df) = 2
    /\ calc_args.payments_df[1] =
          [payer |-> "Ann", date_dt |-> get_debt_periods[1].end, amount |-> 10]
    /\ calc_args.payments_df[2] =
          [payer |-> "Ann", date_dt |-> get_debt_periods[4].end + 1, amount |-> 25000]
    /\ calc_ret.summary_data[1].paid = 1000
    /\ calc_ret.total_paid_all_years = 1000

\* the payments of the debtor dated inside period i, as indices of payments_df
MineIn(i) ==
    {k \in 1..Len(calc_args.payments_df) :
        /\ calc_args.payments_df[k].payer = calc_args.debtor_name
        /\ get_debt_periods[i].start <= calc_args.payments_df[k].date_dt
        /\ calc_args.payments_df[k].date_dt <= get_debt_periods[i].end}

\* C11: a period that has ended before the evaluation date and whose in-period
\* payments reach its target (a quarter of the loan) has shortfall 0, fine 0
\* and the status "fully paid"; with a loan of 100,000 and one payment of
\* 25,000 on the first period's start date, evaluated one day after the first
\* period's end, the remaining overall debt is 75,000.
C11_PaidPeriodHasNoFine ==
    calc_ret.done =>
        /\ \A i \in 1..4 :
              (/\ calc_args.current_date > get_debt_periods[i].end
               /\ 100 * SumAmounts(calc_args.payments_df, MineIn(i)) >= 25 * ArgLoan)
              => /\ calc_ret.summary_data[i].shortfall = 0
                 /\ calc_ret.summary_data[i].fine = 0
                 /\ calc_ret.summary_data[i].status = "fully paid"
        /\ (/\ ArgLoan = 100000
            /\ calc_args.current_date = get_debt_periods[1].end + 1
            /\ calc_args.payments_df =
                  <<[payer |-> calc_args.debtor_name,
                     date_dt |-> get_debt_periods[1].start, amount |-> 25000]>>)
           => /\ calc_ret.summary_data[1].target = 2500000
              /\ calc_ret.summary_data[1].paid = 2500000
              /\ calc_ret.total_fine_all_years = 0
              /\ calc_ret.remaining_overall_debt_with_fine = 7500000

C11_Witness ==
    /\ calc_ret.done
    /\ ArgLoan = 100000
    /\ calc_args.current_date = get_debt_periods[1].end + 1
    /\ calc_args.payments_df =
          <<[payer |-> "Ann", date_dt |-> get_debt_periods[1].start, amount |-> 25000]>>
    /\ calc_ret.summary_data[1].status = "fully paid"
    /\ calc_ret.remaining_overall_debt_with_fine = 7500000

\* C12: the remaining balance returned is max(0, total_loan - total_paid) +
\* total_fines, where total_paid and total_fines are the sums of the four
\* periods' paid amounts and fines; it is never negative and never below
\* total_fines (paid and balance in hundredths of a baht, fines in baht).
C12_RemainingBalance ==
    calc_ret.done =>
        LET sd   == calc_ret.summary_data
            paid == sd[1].paid + sd[2].paid + sd[3].paid + sd[4].paid
            fine == sd[1].fine + sd[2].fine + sd[3].fine + sd[4].fine
            owed == IF 100 * ArgLoan > paid THEN 100 * ArgLoan - paid ELSE 0
        IN  /\ calc_ret.total_paid_all_years = paid
            /\ calc_ret.total_fine_all_years = fine
            /\ calc_ret.remaining_overall_debt_with_fine = owed + 100 * fine
            /\ calc_ret.remaining_overall_debt_with_fine >= 0
            /\ calc_ret.remaining_overall_debt_with_fine >= 100 * fine

C12_Witness ==
    /\ calc_ret.done
    /\ ArgLoan = 100000
    /\ calc_args.current_date = get_debt_periods[4].end + 1
    /\ Len(calc_args.payments_df) = 1
    /\ calc_args.payments_df[1].payer = "Ann"
    /\ calc_args.payments_df[1].date_dt = get_debt_periods[1].end + 1
    /\ calc_args.payments_df[1].amount = 10
    /\ calc_ret.total_fine_all_years = 15000
    /\ calc_ret.remaining_overall_debt_with_fine = 11500000

C16_PeriodsCoverRange ==
    /\ \A i \in 1..4 :
          get_debt_periods[i].end - get_debt_periods[i].start + 1 \in {365, 366}
    /\ \A d \in get_debt_periods[1].start .. get_debt_periods[4].end :
          Cardinality({i \in 1..4 : /\ get_debt_periods[i].start <= d
                                    /\ d <= get_debt_periods[i].end}) = 1
    /\ calc_ret.done =>
          calc_ret.total_paid_all_years =
             100 * SumAmounts(calc_args.payments_df,
                     {k \in 1..Len(calc_args.payments_df) :
                         /\ calc_args.payments_df[k].payer = calc_args.debtor_name
                         /\ get_debt_periods[1].start <= calc_args.payments_df[k].date_dt
                         /\ calc_args.payments_df[k].date_dt <= get_debt_periods[4].end})

\* C17: while the evaluation date is on or before a period's end the period's
\* fine is 0 and its status is "not yet due", whatever its shortfall, and the
\* total of fines is the sum of the fines of the periods that have ended.
C17_NoFineBeforePeriodEnd ==
    calc_ret.done =>
        /\ \A i \in 1..4 :
              calc_args.current_date <= get_debt_periods[i].end
              => /\ calc_ret.summary_data[i].fine = 0
                 /\ calc_ret.summary_data[i].status = "not yet due"
        /\ \E ended \in SUBSET (1..4) :
              /\ ended = {i \in 1..4 : calc_args.current_date > get_debt_periods[i].end}
              /\ calc_ret.total_fine_all_years =
                    (IF 1 \in ended THEN calc_ret.summary_data[1].fine ELSE 0)
                  + (IF 2 \in ended THEN calc_ret.summary_data[2].fine ELSE 0)
                  + (IF 3 \in ended THEN calc_ret.summary_data[3].fine ELSE 0)
                  + (IF 4 \in ended THEN calc_ret.summary_data[4].fine ELSE 0)

C17_Witness ==
    /\ calc_ret.done
    /\ calc_args.current_date = get_debt_periods[1].end
    /\ ArgLoan = 100000
    /\ calc_args.payments_df = <<>>
    /\ calc_ret.summary_data[1].shortfall = 2500000
    /\ calc_ret.summary_data[1].fine = 0
    /\ calc_ret.summary_data[1].status = "not yet due"
    /\ calc_ret.total_fine_all_years = 0

----------------------------------------------------------------------------
(* Two sessions inside write_df_to_sheet("pay", ...) at the same time *)

Sessions == {1, 2}

RaceRows ==
    {PayRow("Ann", DateCell("ymd", date(2025, 6, 1)), AmountCell("plain", a), "")
       : a \in Amounts}

\* lines 112-120: the frame is turned into data_to_upload
BeginWrite(s, rows) ==
    /\ wpc[s] = "idle"
    /\ wdata' = [wdata EXCEPT ![s] = data_to_upload(PAYMENT_GSHEET_COLS, rows)]
    /\ wpc' = [wpc EXCEPT ![s] = "clear"]
    /\ UNCHANGED <<customers, pay, cache, selected_debtor, show_edit_form,
                   edit_payment_data, last_op, faults, finished>>
    /\ calc_unchanged /\ UNCHANGED history_row

\* line 122: sheet.clear()
ClearStep(s) ==
    /\ wpc[s] = "clear"
    /\ pay' = SheetClear(pay)
    /\ wpc' = [wpc EXCEPT ![s] = "update"]
    /\ UNCHANGED <<customers, cache, selected_debtor, show_edit_form,
                   edit_payment_data, last_op, faults, wdata, finished>>
    /\ calc_unchanged /\ UNCHANGED history_row

\* line 123: sheet.update(data_to_upload); the save has finished
UpdateStep(s) ==
    /\ wpc[s] = "update"
    /\ pay' = SheetUpdate(pay, wdata[s])
    /\ wpc' = [wpc EXCEPT ![s] = "done"]
    /\ finished' = Append(finished, s)
    /\ UNCHANGED <<customers, cache, selected_debtor, show_edit_form,
                   edit_payment_data, last_op, faults, wdata>>
    /\ calc_unchanged /\ UNCHANGED history_row

InitRace ==
    /\ \E st \in InitStores :
          /\ customers = st.customers
          /\ pay = st.pay
    /\ cache = NoCache
    /\ selected_debtor = NoDebtor
    /\ show_edit_form = FALSE
    /\ edit_payment_data = NoEdit
    /\ last_op = Op("init", "ok", "")
    /\ faults = 0
    /\ calc_args = calc_idle
    /\ calc_ret = no_ret
    /\ calc_prev = no_prev
    /\ wpc = [s \in Sessions |-> "idle"]
    /\ wdata = [s \in Sessions |-> <<>>]
    /\ finished = <<>>
    /\ history_row = no_history

NextRace ==
    \/ \E s \in Sessions, rows \in SeqsUpTo(RaceRows, MaxRows) : BeginWrite(s, rows)
    \/ \E s \in Sessions : ClearStep(s)
    \/ \E s \in Sessions : UpdateStep(s)

SpecRace == InitRace /\ [][NextRace]_vars

----------------------------------------------------------------------------
(* Claims about the store and the session (checked under Spec, SpecRace) *)

WriteOps == {"record_payment", "update_payment", "add_debtor", "edit_loan",
             "delete_debtor"}

\* the payment the edit form was opened for
LocatedOf(edit_data) ==
    [payer |-> edit_data.debtor_name,
     date_dt |-> edit_data.payment_date,
     amount |-> edit_data.amount,
     note |-> edit_data.note]

Located == LocatedOf(edit_payment_data)

\* a sheet row that is the located payment but for its amount
DiffersOnlyByAmount(gsheet_row, row) ==
    /\ row_matches_no_amount(gsheet_row, row)
    /\ gsheet_row.amount.fmt = "plain"
    /\ gsheet_row.amount.num # row.amount

\* C1: when the user has opened the edit form for the payment with amount A
\* and submits the update, a row of the pay sheet that differs from that
\* payment only by its amount (B) is left as it was.
C1_EditLeavesTwinRow ==
    [][(last_op'.op = "update_payment" /\ last_op'.result = "ok")
         => \A j \in 2..Len(pay) :
               DiffersOnlyByAmount(pay[j], Located)
                 => (j <= Len(pay') /\ pay'[j] = pay[j])]_vars

\* C2: a delete that reports success leaves no pay row whose payer is the
\* deleted name, leaves no debtor row with that name, and keeps every other
\* pay row, unchanged and in order.
C2_DeleteCascades ==
    [][(last_op'.op = "delete_debtor" /\ last_op'.result = "ok" /\ pay # <<>>)
         => /\ \A i \in 2..Len(pay') : pay'[i].payer # last_op'.arg
            /\ \A i \in 2..Len(customers') : customers'[i].name # last_op'.arg
            /\ Tail(pay') = SelectSeq(Tail(pay), LAMBDA r : r.payer # last_op'.arg)]_vars

\* C3: an update is written only while the located sheet row still is the
\* payment the form was opened for; otherwise it is rejected and no row is
\* overwritten.
C3_StaleRowRejected ==
    [][(last_op'.op = "update_payment" /\ pay' # pay)
         => /\ edit_payment_data.sheet_row_index <= Len(pay)
            /\ row_matches(pay[edit_payment_data.sheet_row_index], Located)]_vars

\* C4: after a write that reports success the next load_data() returns what
\* the two sheets hold now.
C4_LoadAfterWriteIsCurrent ==
    (last_op.op \in WriteOps /\ last_op.result = "ok")
      => load_data = LoadData(customers, pay)

\* C5: when both sessions have finished their save, the sheet holds exactly
\* the header and the rows of the save that finished last.
C5_LastWriteWins ==
    Len(finished) = 2 => pay = wdata[finished[2]]

\* C15: after a load of a customers sheet with N >= 1 data rows the loaded
\* debtors carry the sequence numbers 1..N in this order, and they are the
\* rows of the sheet taken in ascending order of the stored sequence numbers.
C15_SequenceNumbersRenumbered ==
    (cache.valid /\ Len(customers) > 1) =>
        LET N  == Len(customers) - 1
            df == cache.customers_df
        IN  /\ Len(df) = N
            /\ \A i \in 1..N : df[i].seq = i
            /\ \E f \in [1..N -> 1..N] :
                  /\ \A i, j \in 1..N : f[i] = f[j] => i = j
                  /\ \A i \in 1..N : df[i].name = customers[f[i] + 1].name
                  /\ \A i, j \in 1..N :
                        i < j => customers[f[i] + 1].seq <= customers[f[j] + 1].seq

C15_Witness ==
    /\ cache.valid
    /\ Len(customers) = 3
    /\ customers[2].seq = 5 /\ customers[2].name = "Bob"
    /\ customers[3].seq = 2 /\ customers[3].name = "Ann"
    /\ cache.customers_df[1].name = "Ann" /\ cache.customers_df[1].seq = 1
    /\ cache.customers_df[2].name = "Bob" /\ cache.customers_df[2].seq = 2

\* the sheet `new` is the sheet `old` with nothing but row i written (rows
\* between the old end and row i are blank)
OneRowWritten(old, new, i) ==
    /\ Len(new) = Max(Len(old), i)
    /\ \A k \in 1..Len(new) :
          k # i => new[k] = (IF k <= Len(old) THEN old[k] ELSE EmptyRow)

\* C19: the edit form opens only by a click on the edit button of a row that
\* was located in the pay sheet; cancel closes the form and writes nothing; a
\* successful update writes exactly one row of the pay sheet, closes the form
\* and clears the cache (the next load reads the sheets again).
C19_EditFlow ==
    [][/\ (show_edit_form' /\ ~show_edit_form)
          => /\ last_op'.op = "edit_button"
             /\ edit_payment_data'.sheet_row_index \in 2..Len(pay)
             /\ row_matches(pay[edit_payment_data'.sheet_row_index],
                            LocatedOf(edit_payment_data'))
       /\ last_op'.op = "cancel_edit"
          => /\ show_edit_form /\ ~show_edit_form'
             /\ customers' = customers /\ pay' = pay
       /\ (last_op'.op = "update_payment" /\ last_op'.result = "ok")
          => /\ show_edit_form /\ ~show_edit_form'
             /\ customers' = customers
             /\ OneRowWritten(pay, pay', edit_payment_data.sheet_row_index)
             /\ cache' \in {NoCache, LoadData(customers', pay')}]_vars

C19_Witness ==
    /\ last_op = Op("update_payment", "ok", "")
    /\ ~show_edit_form
    /\ edit_payment_data.sheet_row_index = 3
    /\ edit_payment_data.amount = 10
    /\ Len(pay) = 4
    /\ pay[2].payer = "Bob"
    /\ pay[3].amount.num = 20
    /\ pay[4].amount.num = 20
    /\ cache = LoadData(customers, pay)

\* C20: a successful payment edit replaces exactly one row of the pay sheet, a
\* row the sheet already had, by the four values (original payer, edited date,
\* edited amount, edited note), and leaves the number of rows, the header and
\* every other row as they were.
C20_EditReplacesOneRow ==
    [][(last_op'.op = "update_payment" /\ last_op'.result = "ok")
         => /\ Len(pay') = Len(pay)
            /\ Len(pay) >= 2
            /\ pay'[1] = pay[1]
            /\ pay[1] = PAYMENT_GSHEET_COLS
            /\ edit_payment_data.sheet_row_index \in 2..Len(pay)
            /\ pay'[edit_payment_data.sheet_row_index].payer
                  = edit_payment_data.debtor_name
            /\ pay'[edit_payment_data.sheet_row_index].date.fmt = "ymd"
            /\ pay'[edit_payment_data.sheet_row_index].amount.fmt = "plain"
            /\ \A k \in 2..Len(pay) :
                  k # edit_payment_data.sheet_row_index => pay'[k] = pay[k]]_vars

\* no two data rows of the customers sheet carry the same name
UniqueNames(sheet) ==
    \A i, j \in 2..Len(sheet) : sheet[i].name = sheet[j].name => i = j

\* C14: an add whose name is among the loaded debtor names is rejected and
\* writes nothing, and a step of add, edit loan or delete that starts from a
\* customers sheet with unique names leaves it with unique names.
C14_NamesStayUnique ==
    [][/\ UniqueNames(customers) => UniqueNames(customers')
       /\ (/\ last_op'.op = "add_debtor"
           /\ last_op'.arg \in Range(debtor_names_of(load_data.customers_df)))
          => /\ last_op'.result = "rejected"
             /\ customers' = customers
             /\ pay' = pay]_vars

C14_Witness ==
    /\ last_op = Op("add_debtor", "rejected", "Ann")
    /\ Len(customers) = 3
    /\ customers[2].name = "Ann"
    /\ UniqueNames(customers)

\* two sheet rows hold the same payment
SamePayment(r1, r2) ==
    /\ r1.payer = r2.payer /\ r1.date = r2.date
    /\ r1.amount.num = r2.amount.num /\ r1.note = r2.note

\* C6: recording a payment, editing a payment, adding a debtor and editing a
\* loan amount remove no row of the pay sheet: the sheet gets no shorter, and
\* (but for the edited row) every payment it held is still in it, rows with an
\* unparseable date included.
C6_OnlyDeleteRemovesRows ==
    [][(last_op'.op \in WriteOps \ {"delete_debtor"} /\ last_op'.result = "ok")
         => /\ Len(pay') >= Len(pay)
            /\ last_op'.op # "update_payment"
                 => \A i \in 2..Len(pay) :
                       \E j \in 2..Len(pay') : SamePayment(pay'[j], pay[i])]_vars

\* C7: an operation that fails leaves both sheets exactly as they were.
C7_FailureWritesNothing ==
    [][last_op'.result = "failed" => (customers' = customers /\ pay' = pay)]_vars

\* the in-memory payment the history loop handled last
DisplayedRow == cache.payments_df[history_row.temp_index + 1]

\* the sheet rows equal to an in-memory payment on payer, date string,
\* numeric amount and note
MatchingRows(row) == {j \in 2..Len(pay) : row_matches(pay[j], row)}

============================================================================
